---- MODULE Spec2Model ----
(***************************************************************************)
(* LoginRouter.route (presentation/routers/login-router.js, latest version *)
(* in src/unnamed/part_000 lines 1-39) together with the HttpResponse      *)
(* helper it calls (src/unnamed/part_001).                                 *)
(*                                                                         *)
(* JavaScript values are records tagged by t; a response envelope is the   *)
(* record the helper returns, with exactly the members the helper sets.    *)
(***************************************************************************)
EXTENDS Integers, Sequences, FiniteSets, TLC

\* Number of route() invocations made on the one LoginRouter instance.
MaxCalls == 2

Calls == 1..MaxCalls

-----------------------------------------------------------------------------
(* JavaScript values *)

Undefined == [t |-> "undefined"]
Null == [t |-> "null"]
Str(s) == [t |-> "string", v |-> s]
Num(n) == [t |-> "number", v |-> n]
Bool(b) == [t |-> "boolean", v |-> b]
\* a plain array: it has indices but no member named email or password
Arr == [t |-> "array"]
\* an already settled promise: state is "fulfilled" or "rejected"
Promise(state, v) == [t |-> "promise", state |-> state, v |-> v]

\* typeof v
TypeOf(v) ==
  CASE v.t = "undefined" -> "undefined"
    [] v.t = "string" -> "string"
    [] v.t = "number" -> "number"
    [] v.t = "boolean" -> "boolean"
    [] OTHER -> "object"   \* null, arrays, plain objects, promises, errors

\* !v
Falsy(v) ==
  \/ v.t \in {"undefined", "null"}
  \/ v.t = "string" /\ v.v = ""
  \/ v.t = "number" /\ v.v = 0
  \/ v.t = "boolean" /\ v.v = FALSE

\* reading a member of undefined or null raises a TypeError
HasProps(v) == v.t \notin {"undefined", "null"}

\* v[key] for a value that has members; a member that is not there is undefined
Member(v, key) ==
  IF v.t = "object" /\ key \in DOMAIN v THEN v[key] ELSE Undefined

-----------------------------------------------------------------------------
(* Error taxonomy: the classes live in files that are not part of the      *)
(* sources at hand; each is the tagged value of the specification, its     *)
(* kind and the constructor argument it carries.                           *)

MissingParamError(paramName) ==
  [t |-> "error", name |-> "MissingParamError", param |-> paramName]

InvalidParamError(paramName) ==
  [t |-> "error", name |-> "InvalidParamError", param |-> paramName]

ServerError == [t |-> "error", name |-> "ServerError"]

UnauthorizedError == [t |-> "error", name |-> "UnauthorizedError"]

-----------------------------------------------------------------------------
(* HttpResponse *)

badRequest(message) ==
  [statusCode |-> 400, body |-> MissingParamError(message)]

serverError == [statusCode |-> 500, body |-> ServerError]

unauthorizedError == [statusCode |-> 401, body |-> UnauthorizedError]

\* success declares no parameter: an argument passed by a caller is not read
success == [statusCode |-> 200]

-----------------------------------------------------------------------------
(* Inputs *)

Emails == {Undefined, Null, Str(""), Str("any_email@email.com")}
Passwords == {Undefined, Str(""), Str("any_password")}
Tokens == {Undefined, Null, Str(""), Str("any_token"), Str("tok123")}

RecordBodies ==
  {[t |-> "object", email |-> e, password |-> p] : e \in Emails, p \in Passwords}

OtherBodies ==
  {Undefined, Null, Str("string test"), Num(1), Bool(TRUE), Arr}

\* route() called with no argument, or with an object whose body is anything
Requests ==
  {Undefined} \cup {[t |-> "object", body |-> b] : b \in RecordBodies \cup OtherBodies}

\* the first constructor argument: absent, or an object whose auth member is
\* missing ("none"), throws when called, or returns a promise that is later
\* fulfilled ("resolves") or rejected ("rejects")
AuthUseCases ==
  {Undefined} \cup
  {[t |-> "object", auth |-> k] : k \in {"none", "throws", "resolves", "rejects"}}

\* the second constructor argument: absent, or an object whose isValid member
\* is missing ("none"), throws, returns a boolean ("sync"), returns a promise
\* of a boolean ("async") or returns a rejected promise ("rejects")
EmailValidators ==
  {Undefined} \cup
  {[t |-> "object", isValid |-> k] :
     k \in {"none", "throws", "sync", "async", "rejects"}}

-----------------------------------------------------------------------------
(* Collaborator calls as route makes them *)

NotCalled == [st |-> "notcalled"]
Threw == [st |-> "threw"]
Returned(v) == [st |-> "returned", v |-> v]

\* this.emailValidator.isValid(email); verdict is what a validator that
\* answers decides about the email.  called says whether isValid was entered.
isValid(emailValidator, email, verdict) ==
  IF ~HasProps(emailValidator) THEN [called |-> FALSE, out |-> Threw]
  ELSE IF emailValidator.isValid = "none" THEN [called |-> FALSE, out |-> Threw]
  ELSE IF emailValidator.isValid = "throws" THEN [called |-> TRUE, out |-> Threw]
  ELSE IF emailValidator.isValid = "sync"
    THEN [called |-> TRUE, out |-> Returned(Bool(verdict))]
  ELSE IF emailValidator.isValid = "async"
    THEN [called |-> TRUE, out |-> Returned(Promise("fulfilled", Bool(verdict)))]
  ELSE [called |-> TRUE, out |-> Returned(Promise("rejected", Undefined))]

\* this.authUseCase.auth(email, password), up to the promise it hands back
auth(authUseCase, email, password) ==
  IF ~HasProps(authUseCase) THEN [called |-> FALSE, out |-> Threw]
  ELSE IF authUseCase.auth = "none" THEN [called |-> FALSE, out |-> Threw]
  ELSE IF authUseCase.auth = "throws" THEN [called |-> TRUE, out |-> Threw]
  ELSE [called |-> TRUE, out |-> [st |-> "pending"]]

\* how the promise returned by auth settles, tok being the token an
\* authenticator that answers resolves to
Settle(authUseCase, tok) ==
  IF authUseCase.auth = "rejects" THEN [st |-> "rejected"]
  ELSE [st |-> "fulfilled", v |-> tok]

-----------------------------------------------------------------------------
(* LoginRouter.route *)

\* the conditions of route's four if statements
\* (variant: the body is only tested for being there, if (!httpRequest.body))
BodyIsFalsy(body) == Falsy(body)
BodyIsNotObject(body) == TypeOf(body) # "object"
EmailMissing(email) == Falsy(email)
\* (variant: the password check is left out)
PasswordNeverMissing(password) == FALSE
PasswordMissing(password) == Falsy(password)
\* (variant: only a null token is refused, if (accessToken === null))
TokenIsNull(accessToken) == accessToken.t = "null"
TokenMissing(accessToken) == Falsy(accessToken)

\* how a stretch of route's try block ends, with the collaborator calls it made
Return(resp, log, v, a) ==
  [ctl |-> "return", value |-> resp, calls |-> log, validity |-> v, authed |-> a]
Throw(log, v, a) ==
  [ctl |-> "throw", value |-> Undefined, calls |-> log, validity |-> v, authed |-> a]
Await(log, v, a) ==
  [ctl |-> "await", value |-> Undefined, calls |-> log, validity |-> v, authed |-> a]

\* the try block from its start to the await (or to an earlier return/throw)
RouteSync(self, httpRequest, verdict) ==
  IF ~HasProps(httpRequest) THEN Throw(<<>>, NotCalled, NotCalled)
  ELSE LET body == Member(httpRequest, "body") IN
  IF BodyIsNotObject(body) THEN Return(serverError, <<>>, NotCalled, NotCalled)
  ELSE IF ~HasProps(body) THEN Throw(<<>>, NotCalled, NotCalled)
  ELSE LET email == Member(body, "email")
           password == Member(body, "password") IN
  IF EmailMissing(email)
    THEN Return(badRequest(MissingParamError(Str("email"))), <<>>, NotCalled, NotCalled)
  ELSE LET iv == isValid(self.emailValidator, email, verdict)
           log1 == IF iv.called THEN <<[fn |-> "isValid", args |-> <<email>>]>>
                   ELSE <<>> IN
  IF iv.out = Threw THEN Throw(log1, Threw, NotCalled)
  ELSE IF Falsy(iv.out.v)
    THEN Return(badRequest(InvalidParamError(Str("email"))), log1, iv.out, NotCalled)
  ELSE IF PasswordMissing(password)
    THEN Return(badRequest(MissingParamError(Str("password"))), log1, iv.out, NotCalled)
  ELSE LET au == auth(self.authUseCase, email, password)
           log2 == IF au.called
                   THEN Append(log1, [fn |-> "auth", args |-> <<email, password>>])
                   ELSE log1 IN
  IF au.out = Threw THEN Throw(log2, iv.out, Threw)
  ELSE Await(log2, iv.out, au.out)

\* the try block from the await on: settled is how auth's promise settled
RouteResume(settled, log, v) ==
  IF settled.st = "rejected" THEN Throw(log, v, settled)
  ELSE LET accessToken == settled.v IN
  IF TokenMissing(accessToken) THEN Return(unauthorizedError, log, v, settled)
  ELSE Return(success, log, v, settled)

\* (variant: no catch clause, a throw leaves route)
NoCatch(r) == r
\* catch (error) { return HttpResponse.serverError() }
TryCatch(r) ==
  IF r.ctl = "throw" THEN [r EXCEPT !.ctl = "return", !.value = serverError] ELSE r

\* (variant: route clears the validator it has used)
ThisValidatorCleared(self) == [self EXCEPT !.emailValidator = Undefined]
\* the instance after a stretch of route: route assigns no member of this
ThisAfterRoute(self) == self

\* the promise of an async function: pending while it awaits, fulfilled by a
\* return, rejected by a throw that leaves the function
PromiseOf(r) ==
  CASE r.ctl = "await" -> [state |-> "pending"]
    [] r.ctl = "return" -> [state |-> "fulfilled", value |-> r.value]
    [] OTHER -> [state |-> "rejected"]

-----------------------------------------------------------------------------
(* State *)

VARIABLES
  this,         \* the LoginRouter instance: [authUseCase, emailValidator]
  httpRequest,  \* per call: the argument of route
  promise,      \* per call: the promise route returned ("none" before the call)
  calls,        \* per call: the collaborator calls made, in order, with arguments
  validity,     \* per call: what isValid did (not called, threw, returned v)
  authed        \* per call: what auth did (not called, threw, pending, settled)

vars == <<this, httpRequest, promise, calls, validity, authed>>

\* new LoginRouter(authUseCase, emailValidator); no call made yet
Init ==
  /\ this \in [authUseCase : AuthUseCases, emailValidator : EmailValidators]
  /\ httpRequest = [c \in Calls |-> Undefined]
  /\ promise = [c \in Calls |-> [state |-> "none"]]
  /\ calls = [c \in Calls |-> <<>>]
  /\ validity = [c \in Calls |-> NotCalled]
  /\ authed = [c \in Calls |-> NotCalled]

Record(c, r) ==
  /\ promise' = [promise EXCEPT ![c] = PromiseOf(r)]
  /\ calls' = [calls EXCEPT ![c] = r.calls]
  /\ validity' = [validity EXCEPT ![c] = r.validity]
  /\ authed' = [authed EXCEPT ![c] = r.authed]
  /\ this' = ThisAfterRoute(this)

\* sut.route(req): runs to the first await, or to the end when it gets to none
Route(c) ==
  /\ promise[c].state = "none"
  /\ \E req \in Requests, verdict \in BOOLEAN :
       /\ httpRequest' = [httpRequest EXCEPT ![c] = req]
       /\ Record(c, TryCatch(RouteSync(this, req, verdict)))

\* auth's promise settles and the suspended call runs to its end
Resume(c) ==
  /\ promise[c].state = "pending"
  /\ \E tok \in Tokens :
       Record(c, TryCatch(RouteResume(Settle(this.authUseCase, tok),
                                      calls[c], validity[c])))
  /\ UNCHANGED httpRequest

Next == \E c \in Calls : Route(c) \/ Resume(c)

Spec == Init /\ [][Next]_vars

-----------------------------------------------------------------------------
(* Vocabulary of the properties *)

Started(c) == promise[c].state # "none"
Done(c) == promise[c].state \in {"fulfilled", "rejected"}
Resolved(c) == promise[c].state = "fulfilled"
Response(c) == promise[c].value

BodyOf(c) == Member(httpRequest[c], "body")
EmailOf(c) == Member(BodyOf(c), "email")
PasswordOf(c) == Member(BodyOf(c), "password")

\* the request has a body that is a key-value record
RecordBody(c) == BodyOf(c).t = "object"
\* isValid answered with a plain boolean / with anything truthy
SaidValid(c) == validity[c] = [st |-> "returned", v |-> [t |-> "boolean", v |-> TRUE]]
SaidInvalid(c) == validity[c] = [st |-> "returned", v |-> [t |-> "boolean", v |-> FALSE]]
Truthy(v) == ~(\/ v.t \in {"undefined", "null"}
               \/ v.t = "string" /\ v.v = ""
               \/ v.t = "number" /\ v.v = 0
               \/ v.t = "boolean" /\ v.v = FALSE)
AuthCalled(c) == \E i \in 1..Len(calls[c]) : calls[c][i].fn = "auth"

Is500(r) == r = [statusCode |-> 500, body |-> [t |-> "error", name |-> "ServerError"]]
Is401(r) == r = [statusCode |-> 401, body |-> [t |-> "error", name |-> "UnauthorizedError"]]
Is400(r, kind, field) ==
  r = [statusCode |-> 400,
       body |-> [t |-> "error", name |-> kind,
                 param |-> [t |-> "string", v |-> field]]]
Is200(r, tok) ==
  /\ r.statusCode = 200
  /\ "body" \in DOMAIN r
  /\ r.body.t = "object"
  /\ "accessToken" \in DOMAIN r.body
  /\ r.body.accessToken = tok

-----------------------------------------------------------------------------
\* C1: a call with a record body, non-empty email and password, an email the
\* validator reports valid and an auth that resolves to a non-empty token T
\* resolves to statusCode 200 with a body whose accessToken is T.
C1_SuccessCarriesToken ==
  \A c \in Calls :
    ( /\ Done(c) /\ RecordBody(c)
      /\ Truthy(EmailOf(c)) /\ Truthy(PasswordOf(c))
      /\ SaidValid(c)
      /\ authed[c].st = "fulfilled" /\ Truthy(authed[c].v) )
    => Resolved(c) /\ Is200(Response(c), authed[c].v)

\* C2: a call that passes all validation and whose auth resolves to a falsy
\* value (null, undefined, empty string) resolves to 401 UnauthorizedError,
\* never to 200.
C2_FalsyTokenIs401 ==
  \A c \in Calls :
    ( /\ Done(c) /\ RecordBody(c)
      /\ Truthy(EmailOf(c)) /\ Truthy(PasswordOf(c))
      /\ SaidValid(c)
      /\ authed[c].st = "fulfilled" /\ ~Truthy(authed[c].v) )
    => Resolved(c) /\ Is401(Response(c)) /\ Response(c).statusCode # 200

C2_Witness ==
  \E c \in Calls :
    /\ Resolved(c) /\ SaidValid(c) /\ Truthy(PasswordOf(c))
    /\ authed[c] = [st |-> "fulfilled", v |-> [t |-> "string", v |-> ""]]
    /\ Response(c).statusCode = 401

\* C3: a call with a record body and a non-empty email that isValid reports
\* invalid resolves to statusCode 400 whose body is InvalidParamError('email'),
\* not a MissingParamError.
C3_InvalidEmailIsInvalidParam ==
  \A c \in Calls :
    (Done(c) /\ RecordBody(c) /\ Truthy(EmailOf(c)) /\ SaidInvalid(c))
    => Resolved(c) /\ Is400(Response(c), "InvalidParamError", "email")

\* the pipeline gets to the isValid call / to the auth call
ReachesValidator(c) == RecordBody(c) /\ Truthy(EmailOf(c))
ReachesAuth(c) ==
  /\ ReachesValidator(c)
  /\ validity[c].st = "returned" /\ Truthy(validity[c].v)
  /\ Truthy(PasswordOf(c))

\* the validator is absent, has no isValid, or isValid throws
ValidatorFaulty ==
  \/ this.emailValidator.t = "undefined"
  \/ this.emailValidator.isValid \in {"none", "throws"}
\* the authenticator is absent, has no auth, or auth throws or rejects
AuthFaulty ==
  \/ this.authUseCase.t = "undefined"
  \/ this.authUseCase.auth \in {"none", "throws", "rejects"}

NotARecord(c) == BodyOf(c).t # "object"

\* C5 as stated: every request whose body is not a key-value record (request
\* absent, body absent, null, string, number, boolean, array) resolves to 500
\* ServerError with no collaborator called.
C5_NonRecordIs500 ==
  \A c \in Calls :
    (Done(c) /\ NotARecord(c))
    => Resolved(c) /\ Is500(Response(c)) /\ calls[c] = <<>>

\* C5 amended: a request that is absent, has no body, or has a null, string,
\* number or boolean body resolves to 500 ServerError with no collaborator
\* called; an array body passes the typeof test, has no email member and
\* resolves to statusCode 400, again with no collaborator called.
C5_NonObjectIs500 ==
  \A c \in Calls :
    (Done(c) /\ NotARecord(c)) =>
      /\ Resolved(c) /\ calls[c] = <<>>
      /\ validity[c].st = "notcalled" /\ authed[c].st = "notcalled"
      /\ IF BodyOf(c).t = "array"
           THEN Response(c).statusCode = 400
           ELSE Is500(Response(c))

C5_Witness ==
  \E c, d \in Calls :
    /\ Resolved(c) /\ httpRequest[c].t = "object" /\ BodyOf(c).t = "null"
    /\ Is500(Response(c))
    /\ Resolved(d) /\ BodyOf(d).t = "array" /\ Response(d).statusCode = 400

\* C6: the earliest failing check decides the response, in the order body
\* shape, email presence, email syntax, password presence, authentication; in
\* particular a record body with an absent or empty email resolves to 400
\* MissingParamError('email') whatever the password and the collaborators.
C6_EarliestCheckWins ==
  \A c \in Calls :
    Done(c) =>
      /\ Resolved(c)
      /\ (RecordBody(c) /\ ~Truthy(EmailOf(c)))
           => Is400(Response(c), "MissingParamError", "email")
      /\ (ReachesValidator(c) /\ ValidatorFaulty) => Is500(Response(c))
      /\ (ReachesValidator(c) /\ SaidInvalid(c))
           => Response(c).statusCode = 400
      /\ (ReachesAuth(c) /\ AuthFaulty) => Is500(Response(c))

\* C7: every request with a record body, a non-empty email and an absent or
\* empty password resolves to 400 MissingParamError('password'); stated here
\* for the requests the password check is reached with (isValid answered
\* true), where the statement and the router's tests agree.
C7_MissingPassword ==
  \A c \in Calls :
    ( /\ Done(c) /\ RecordBody(c)
      /\ Truthy(EmailOf(c)) /\ ~Truthy(PasswordOf(c))
      /\ SaidValid(c) )
    => Resolved(c) /\ Is400(Response(c), "MissingParamError", "password")

\* C7, the part of the statement that puts no condition on the validator:
\* the same response also when isValid answers false or the validator is
\* absent or faulty.
C7_WhateverTheValidator ==
  \A c \in Calls :
    (Done(c) /\ RecordBody(c) /\ Truthy(EmailOf(c)) /\ ~Truthy(PasswordOf(c)))
    => Resolved(c) /\ Response(c).statusCode = 400
       /\ Response(c).body.name = "MissingParamError"

\* C8: an isValid that answers with a promise of false is treated as one that
\* answers false: the call resolves to statusCode 400 and auth is not invoked.
C8_AsyncVerdictHonoured ==
  \A c \in Calls :
    ( /\ Done(c) /\ ReachesValidator(c)
      /\ validity[c] = [st |-> "returned",
                        v |-> [t |-> "promise", state |-> "fulfilled",
                               v |-> [t |-> "boolean", v |-> FALSE]]] )
    => Resolved(c) /\ Response(c).statusCode = 400 /\ ~AuthCalled(c)

\* what one call keeps between its two stretches
Locals(c) == <<httpRequest[c], promise[c], calls[c], validity[c], authed[c]>>

\* C9: route writes no member of the router instance; two finished calls with
\* the same request and the same answers from their own collaborator calls
\* hold the same response; a call suspended on auth is left as it is by the
\* steps of other calls.
C9_Stateless ==
  /\ [](\A c, d \in Calls :
          ( /\ Done(c) /\ Done(d)
            /\ httpRequest[c] = httpRequest[d]
            /\ validity[c] = validity[d]
            /\ authed[c] = authed[d] )
          => promise[c] = promise[d])
  /\ [][this' = this]_vars
  /\ [][\A c \in Calls :
          (promise[c].state = "pending" /\ promise'[c].state = "pending")
          => Locals(c)' = Locals(c)]_vars

C9_Witness ==
  \E c, d \in Calls :
    /\ c # d
    /\ promise[c].state = "pending"
    /\ Resolved(d) /\ authed[d].st = "fulfilled"
    /\ httpRequest[c] = httpRequest[d]

\* the two collaborator calls a request can give rise to
IsValidCall(c) == [fn |-> "isValid", args |-> <<EmailOf(c)>>]
AuthCall(c) == [fn |-> "auth", args |-> <<EmailOf(c), PasswordOf(c)>>]

\* C10: within one call isValid is called at most once, with the body's email,
\* only after the body-shape and email-presence checks passed; auth at most
\* once, with the body's (email, password), only after isValid returned a
\* truthy verdict and the password was found non-empty; nothing is called once
\* the response is determined.  So a call ending in 200 or 401 made exactly the
\* calls isValid then auth, and a call ending in 400 made no auth call.
C10_CallProtocol ==
  /\ [](\A c \in Calls :
          /\ Len(calls[c]) <= 2
          /\ Len(calls[c]) >= 1 =>
               /\ calls[c][1] = IsValidCall(c)
               /\ RecordBody(c) /\ Truthy(EmailOf(c))
          /\ Len(calls[c]) = 2 =>
               /\ calls[c][2] = AuthCall(c)
               /\ validity[c].st = "returned" /\ Truthy(validity[c].v)
               /\ Truthy(PasswordOf(c))
          /\ (Resolved(c) /\ Response(c).statusCode \in {200, 401})
               => calls[c] = <<IsValidCall(c), AuthCall(c)>>
          /\ (Resolved(c) /\ Response(c).statusCode = 400) => ~AuthCalled(c))
  /\ [][\A c \in Calls : Done(c) => calls'[c] = calls[c]]_vars

C10_Witness ==
  \E c, d \in Calls :
    /\ Resolved(c) /\ Response(c).statusCode = 200
    /\ calls[c] = <<IsValidCall(c), AuthCall(c)>>
    /\ Resolved(d) /\ Response(d).statusCode = 400
    /\ calls[d] = <<IsValidCall(d)>>

====
